---- MODULE Spec2Model ----
(***************************************************************************)
(* Model of the synchronisation engine of dptrp1manager                    *)
(* (src/dptrp1manager/dptsync.py and the collaborators it calls).          *)
(*                                                                         *)
(* A path is the sequence of its components ("Document/R/F" is             *)
(* <<"Document","R","F">>).  A tree is a function from the paths of the    *)
(* bounded universe to a node record; the record Absent stands for "no     *)
(* node at this path" (get_node_by_path returning None).                   *)
(***************************************************************************)
EXTENDS Integers, Sequences, FiniteSets, TLC

\* ------------------------------------------------------------------ bounds
\* Document sizes are 1..MaxSize, modification dates 1..MaxDate.
MaxSize == 3
MaxDate == 2

\* file_size=None / modified_date=None of a folder node.
NoSize == 0
NoDate == 0

Sizes == 1..MaxSize
Dates == 1..MaxDate

\* sync_state=None (the constructor default).
None == "None"
SyncStates == {"new", "equal", "modified"}

\* ------------------------------------------------------------------- paths
\* sync_folder(local, remote): remote = "Document/R", basename(local) = "L".
remote_root == <<"Document", "R">>
local_root_name == "L"

\* The entries that may exist below a sync root, relative to it, in the
\* order a pre-order walk meets them; the last one can only be a folder,
\* the one ending in .pdf only a document.
RelPaths == << <<>>, <<"F">>, <<"F", "b.pdf">>, <<"F", "G">> >>
RelSet == {RelPaths[k] : k \in 1..Len(RelPaths)}

IsPdf(p) == Len(p) > 0 /\ p[Len(p)] = "b.pdf"

Map(f(_), s) == [k \in 1..Len(s) |-> f(s[k])]
Range(s) == {s[k] : k \in 1..Len(s)}

LocOf(r) == <<local_root_name>> \o r
RemOf(r) == remote_root \o r

\* Pre-order listings of the two universes.
LocOrder == Map(LocOf, RelPaths)
RemOrder == Map(RemOf, RelPaths)
LocPaths == Range(LocOrder)
\* The remote tree always covers the whole namespace, from "Document" down:
\* the device also has a folder beside the remote root.
Outside == <<"Document", "S">>
RemPaths == Range(RemOrder) \cup {<<"Document">>, Outside}

IsPrefix(p, q) == Len(p) <= Len(q) /\ SubSeq(q, 1, Len(p)) = p
Parent(p) == SubSeq(p, 1, Len(p) - 1)

\* ------------------------------------------------------------------- nodes
Node(t, s, m, st) ==
  [entry_type |-> t, file_size |-> s, modified_date |-> m, sync_state |-> st]
Absent == Node("absent", NoSize, NoDate, None)
Folder == Node("folder", NoSize, NoDate, None)
Document(s, m) == Node("document", s, m, None)

Present(tree, p) == p \in DOMAIN tree /\ tree[p].entry_type # "absent"

\* What the entry at a path may be.
EntriesAt(p) ==
  IF IsPdf(p) THEN {Absent} \cup {Document(s, m) : s \in Sizes, m \in Dates}
  ELSE {Absent, Folder}

\* A directory structure: the roots exist, every entry has its parent folder.
WellFormed(tree, roots) ==
  /\ \A p \in roots : tree[p] = Folder
  /\ \A p \in DOMAIN tree :
       /\ tree[p] \in EntriesAt(p)
       /\ (Present(tree, p) /\ p \notin roots) => tree[Parent(p)] = Folder

LocalRoots == {<<local_root_name>>}
RemoteRoots == {<<"Document">>, remote_root}

EmptyLocal == [p \in LocPaths |-> IF p \in LocalRoots THEN Folder ELSE Absent]
EmptyRemote ==
  [p \in RemPaths |-> IF p \in RemoteRoots \cup {Outside} THEN Folder ELSE Absent]
NoTreeLoc == [p \in LocPaths |-> Absent]
NoTreeRem == [p \in RemPaths |-> Absent]


\* ------------------------------------------------------- path translation
RECURSIVE CommonLen(_, _)
CommonLen(p, q) ==
  IF p = <<>> \/ q = <<>> \/ Head(p) # Head(q) THEN 0
  ELSE 1 + CommonLen(Tail(p), Tail(q))

\* A path string is the sequence of its components between slashes, so
\* that a trailing or doubled slash shows as an empty component.
\* osp.normpath drops the empty components.
\* osp.relpath(path, start): one ".." for every component of start that is
\* not shared, then the rest of path; <<>> stands for ".".
normpath(p) == SelectSeq(p, LAMBDA c : c # "")

relpath(path, start) ==
  LET p == normpath(path)
      s == normpath(start)
      k == CommonLen(p, s)
  IN  [j \in 1..(Len(s) - k) |-> ".."] \o SubSeq(p, k + 1, Len(p))

\* Synchronizer._fix_path4local: remote path -> path in the local tree.
fix_path4local_from(root, path) ==
  LET rp == relpath(path, root)
  IN  IF rp = <<>> THEN <<local_root_name>> ELSE <<local_root_name>> \o rp

fix_path4local(path) == fix_path4local_from(remote_root, path)

\* Synchronizer._fix_path4remote: path.split("/", 1), the first component
\* replaced by the remote root.
fix_path4remote_to(root, path) ==
  IF Len(path) > 1 THEN root \o Tail(path) ELSE root

fix_path4remote(path) == fix_path4remote_to(remote_root, path)

\* DPManager.fix_path: one trailing slash goes, "Document/" is put in front
\* of a path that does not start with it.
fix_path(path) ==
  LET p == IF path # <<>> /\ path[Len(path)] = "" THEN SubSeq(path, 1, Len(path) - 1)
           ELSE path
  IN  IF p # <<>> /\ Head(p) = "Document" THEN p ELSE <<"Document">> \o p

\* ------------------------------------------------------------ tree lookup
\* get_node_by_path: the node, or Absent for None.
get_node_by_path(tree, path) ==
  IF Present(tree, path) THEN tree[path] ELSE Absent

\* anytree.PreOrderIter over the nodes of a tree listed in `order`.
PreOrderIter(tree, order) == SelectSeq(order, LAMBDA p : Present(tree, p))

\* RemoteTree.remove_node / LocalTree.remove_node: the node leaves its
\* parent's children, and its subtree with it.
RemoveSubtree(tree, path) ==
  [q \in DOMAIN tree |-> IF IsPrefix(path, q) THEN Absent ELSE tree[q]]

remove_node(tree, path) ==
  IF Present(tree, path) THEN RemoveSubtree(tree, path) ELSE tree

\* The entries directly inside a folder.
Children(tree, path) ==
  {q \in DOMAIN tree : Present(tree, q) /\ Len(q) = Len(path) + 1 /\ IsPrefix(path, q)}

\* --------------------------------------------------------------- the diff
\* Synchronizer._check_node
\* A variant of check_node that also compares the dates: the size-only
\* comparison must be told apart from it.
check_node_dated(old, new) ==
  IF old.entry_type = "document"
  THEN IF old.file_size = new.file_size /\ old.modified_date = new.modified_date
       THEN "equal" ELSE "modified"
  ELSE "equal"

check_node(old, new) ==
  IF old.entry_type = "document"
  THEN IF old.file_size = new.file_size THEN "equal" ELSE "modified"
  ELSE "equal"

\* The two loops of _cmp_remote2old / _cmp_local2old over an existing old
\* tree: nodes found in the old tree are checked, the nodes of the walked
\* subtree (`order`) that are still unset become "new".
SetSyncStates(oldtree, curtree, order) ==
  [p \in DOMAIN curtree |->
     IF ~Present(curtree, p) THEN Absent
     ELSE IF Present(oldtree, p)
          THEN [curtree[p] EXCEPT !.sync_state = check_node(oldtree[p], curtree[p])]
     ELSE IF p \in Range(order) THEN [curtree[p] EXCEPT !.sync_state = "new"]
     ELSE curtree[p]]

\* A variant of DeletedNodes that lists every deleted node among the
\* documents, whatever its kind.
DeletedNodes_unsorted(oldtree, curtree, order) ==
  LET gone(isdoc) ==
        SelectSeq(order, LAMBDA p : /\ Present(oldtree, p)
                                    /\ (isdoc \/ oldtree[p].entry_type # "document")
                                    /\ ~Present(curtree, p))
  IN  [documents |-> gone(TRUE), folders |-> gone(FALSE)]

\* deleted_nodes: the old nodes, in pre-order, that have no current node.
DeletedNodes(oldtree, curtree, order) ==
  LET gone(isdoc) ==
        SelectSeq(order, LAMBDA p : /\ Present(oldtree, p)
                                    /\ (oldtree[p].entry_type = "document") = isdoc
                                    /\ ~Present(curtree, p))
  IN  [documents |-> gone(TRUE), folders |-> gone(FALSE)]

NoDeletions == [documents |-> <<>>, folders |-> <<>>]

\* ------------------------------------------------------- serialization
\* A JSON value: null, a number, a string, or the object that tools.default
\* makes of a datetime (its isoformat under one key).
JsonNull == [json |-> "null"]
JsonNumber(n) == [json |-> "number", value |-> n]
JsonString(s) == [json |-> "string", value |-> s]

\* tools.default: a datetime becomes {"_isoformat": obj.isoformat()}.
default(obj) == [json |-> "object", isoformat |-> obj]

\* tools.object_hook: an object with the key _isoformat becomes the datetime.
object_hook(obj) == IF obj.json = "object" THEN obj.isoformat ELSE obj

\* A variant of dump_date that writes no date at all.
dump_date_null(d) == JsonNull

\* json.dump of the three kinds of attribute value; None is null.
dump_date(d) == IF d = NoDate THEN JsonNull ELSE default(d)
dump_size(s) == IF s = NoSize THEN JsonNull ELSE JsonNumber(s)
dump_string(s) == IF s = None THEN JsonNull ELSE JsonString(s)

\* json.load of them.
load_date(j) == IF j.json = "null" THEN NoDate ELSE object_hook(j)
load_size(j) == IF j.json = "null" THEN NoSize ELSE j.value
load_string(j) == IF j.json = "null" THEN None ELSE j.value

\* JsonExporter.write: for each node of `ps` the dict of its attributes,
\* with the dicts of its children, in their order, under "children".
RECURSIVE export(_, _, _)
export(tree, order, ps) ==
  IF ps = <<>> THEN <<>>
  ELSE LET p == Head(ps)
           kids == SelectSeq(order, LAMBDA q : q \in Children(tree, p))
       IN  << [path          |-> p,
               entry_type    |-> dump_string(tree[p].entry_type),
               file_size     |-> dump_size(tree[p].file_size),
               modified_date |-> dump_date(tree[p].modified_date),
               sync_state    |-> dump_string(tree[p].sync_state),
               children      |-> export(tree, order, kids)] >>
           \o export(tree, order, Tail(ps))

\* save_to_file(path, start_node): the export of the start node.
save_to_file(tree, order, start) == Head(export(tree, order, <<start>>))

\* DictImporter: the node dicts in pre-order, each made a node again.
RECURSIVE import(_)
import(dicts) ==
  IF dicts = <<>> THEN <<>>
  ELSE <<Head(dicts)>> \o import(Head(dicts).children) \o import(Tail(dicts))

\* load_from_file: the tree of the nodes read, by their paths.
load_from_file(data, paths) ==
  LET read(nodes) ==
        [p \in paths |->
           LET at == {k \in 1..Len(nodes) : nodes[k].path = p}
           IN  IF at = {} THEN Absent
               ELSE LET n == nodes[CHOOSE k \in at : TRUE]
                    IN  Node(load_string(n.entry_type), load_size(n.file_size),
                             load_date(n.modified_date), load_string(n.sync_state))]
  IN  CHOOSE tree \in {read(nodes) : nodes \in {import(<<data>>)}} : TRUE

\* A persisted snapshot file: absent, or there with the tree that loading
\* it gives, or there and not readable as JSON (json.load raises).
NoFile(tree) == [exists |-> FALSE, corrupt |-> FALSE, tree |-> tree]
File(tree) == [exists |-> TRUE, corrupt |-> FALSE, tree |-> tree]
CorruptFile(tree) == [exists |-> TRUE, corrupt |-> TRUE, tree |-> tree]

\* _load_sync_state_remote / _load_sync_state_local: load_from_file is
\* called when the file exists and its exception is not caught.
load_raises(statefile) == statefile.exists /\ statefile.corrupt

cmp_deleted(statefile, curtree, order) ==
  IF statefile.exists THEN DeletedNodes(statefile.tree, curtree, order)
  ELSE NoDeletions

\* A variant of cmp_tree that diffs against an empty old tree when there is
\* no file, so that every node of a first sync becomes "new".
cmp_tree_all_new(statefile, curtree, order) ==
  SetSyncStates(statefile.tree, curtree, order)

cmp_tree(statefile, curtree, order) ==
  IF statefile.exists THEN SetSyncStates(statefile.tree, curtree, order)
  ELSE curtree

\* ------------------------------------------------- the world during a run
\* W = [fs, dev, remote_tree, tree_loc, log, crashed, asking, now]:
\*   fs, dev       the local file system and the device's store,
\*   remote_tree   DPManager._remote_tree (tree_rem shares its nodes),
\*   tree_loc      the LocalTree of this run,
\*   log           what the run has done so far,
\*   crashed       an exception has ended the run,
\*   asking        _askuser is waiting for input,
\*   now           the date a file written during this run gets.
Op(op, path, via, l, r) == [op |-> op, path |-> path, via |-> via, l |-> l, r |-> r]
Did(W, op, path, via) == [W EXCEPT !.log = Append(@, Op(op, path, via, None, None))]
Crash(W, op, path) == [Did(W, op, path, "exception") EXCEPT !.crashed = TRUE]

\* DPManager.node_exists / get_node: a lookup in the tree in memory.
node_exists(W, path) == Present(W.remote_tree, path)

\* DPManager.rm_file -> MyDigitalPaper.delete_document_byid
rm_file(W, path, via) ==
  IF node_exists(W, path)
  THEN [Did(W, "rm_file", path, via) EXCEPT !.dev[path] = Absent]
  ELSE W

\* DPManager.rm_dir -> MyDigitalPaper.delete_directory_byid: the device
\* deletes the folder only when it holds nothing.
rm_dir(W, path, via) ==
  IF node_exists(W, path)
  THEN IF Children(W.dev, path) = {}
       THEN [Did(W, "rm_dir", path, via) EXCEPT !.dev[path] = Absent]
       ELSE Did(W, "rm_dir_rejected", path, via)
  ELSE W

\* DPManager.mkdir -> MyDigitalPaper.new_folder_byid
mkdir(W, path, via) ==
  IF node_exists(W, Parent(path))
  THEN IF ~node_exists(W, path)
       THEN [Did(W, "mkdir", path, via) EXCEPT !.dev[path] = Folder]
       ELSE Did(W, "mkdir_exists", path, via)
  ELSE Did(W, "mkdir_failed", path, via)

\* FileTransferHandler._is_equal: the size in the remote tree against the
\* size of the local file.
is_equal(W, local, remote) ==
  get_node_by_path(W.remote_tree, remote).file_size = W.fs[local].file_size

\* Uploader.upload_file(source, dest, "local_wins"); dest ends in .pdf.
upload_file(W, source, dest, via) ==
  LET dest_dir == Parent(dest)
      sent == Document(W.fs[source].file_size, W.now)
  IN  IF node_exists(W, dest_dir) /\ Present(W.fs, source) /\ IsPdf(dest)
      THEN IF node_exists(W, dest)
           THEN IF is_equal(W, source, dest)
                THEN Did(W, "upload_equal", dest, via)
                ELSE \* local_wins: delete the old file, then transfer
                     [Did(rm_file(W, dest, "upload_file"), "upload", dest, via)
                        EXCEPT !.dev[dest] = sent]
           ELSE [Did(W, "upload", dest, via) EXCEPT !.dev[dest] = sent]
      ELSE Did(W, "upload_failed", dest, via)

\* Downloader.download_file(source, dest, "remote_wins"); dest is never a
\* directory here, since only a .pdf path holds a document.
download_file(W, source, dest, via) ==
  IF /\ node_exists(W, source)
     /\ Present(W.fs, Parent(dest))
     /\ W.remote_tree[source].entry_type = "document"
  THEN [Did(W, "download", dest, via)
          EXCEPT !.fs[dest] = Document(W.dev[source].file_size, W.now)]
  ELSE Did(W, "download_failed", dest, via)

\* os.remove(fn) / os.rmdir(fn) / os.mkdir(fn)
os_remove(W, fn) == [Did(W, "os.remove", fn, "handle_deletions") EXCEPT !.fs[fn] = Absent]

os_rmdir(W, fn) ==
  IF Children(W.fs, fn) = {}
  THEN [Did(W, "os.rmdir", fn, "handle_deletions") EXCEPT !.fs[fn] = Absent]
  ELSE Crash(W, "OSError", fn)

os_mkdir(W, fn) ==
  IF Present(W.fs, fn) THEN Crash(W, "FileExistsError", fn)
  ELSE IF ~Present(W.fs, Parent(fn)) THEN Crash(W, "FileNotFoundError", fn)
  ELSE [Did(W, "os.mkdir", fn, "cmp_local2remote") EXCEPT !.fs[fn] = Folder]

\* A loop over s from the world W; the world after each pass is taken as a
\* value (the one element of a set) before the next pass starts from it.
RECURSIVE Fold(_, _, _)
Fold(f(_, _), W, s) ==
  IF s = <<>> THEN W
  ELSE CHOOSE r \in {Fold(f, v, Tail(s)) : v \in {f(w, Head(s)) : w \in {W}}} : TRUE

\* The last log entry gets the sync states the step has seen: those of the
\* two nodes a transfer was decided on, that of the node a deletion removes.
Stamp(W, l, r) ==
  [W EXCEPT !.log[Len(W.log)] = [@ EXCEPT !.l = l, !.r = r]]

\* ---------------------------------------------------- _handle_deletions
\* A variant of del_loc_document that keeps a document the device has in
\* a modified version.
del_loc_document_keeps_modified(W, d) ==
  IF W.crashed THEN W
  ELSE LET p == fix_path4remote(d)
       IN  IF node_exists(W, p) /\ W.remote_tree[p].sync_state = "modified" THEN W
           ELSE [rm_file(W, p, "handle_deletions") EXCEPT !.remote_tree = remove_node(@, p)]

\* for d in deletions_loc["documents"]
del_loc_document(W, d) ==
  IF W.crashed THEN W
  ELSE LET p == fix_path4remote(d)
           W1 == IF node_exists(W, p)
                 THEN Stamp(rm_file(W, p, "handle_deletions"),
                            None, W.remote_tree[p].sync_state)
                 ELSE rm_file(W, p, "handle_deletions")
       IN  [W1 EXCEPT !.remote_tree = remove_node(@, p)]

\* for d in deletions_loc["folders"]
del_loc_folder(W, d) ==
  IF W.crashed THEN W
  ELSE LET p == fix_path4remote(d)
           W1 == rm_dir(W, p, "handle_deletions")
       IN  [W1 EXCEPT !.remote_tree = remove_node(@, p)]

\* for d in deletions_rem["documents"]: get_node_by_path(...).abspath raises
\* AttributeError when the local tree has no such node.
del_rem_document(W, d) ==
  IF W.crashed THEN W
  ELSE LET fn == fix_path4local(d)
       IN  IF ~Present(W.tree_loc, fn) THEN Crash(W, "AttributeError", fn)
           ELSE LET W1 == IF Present(W.fs, fn)
                          THEN Stamp(os_remove(W, fn), W.tree_loc[fn].sync_state, None)
                          ELSE W
                IN  [W1 EXCEPT !.tree_loc = remove_node(@, fn)]

\* for d in deletions_rem["folders"]
del_rem_folder(W, d) ==
  IF W.crashed THEN W
  ELSE LET fn == fix_path4local(d)
       IN  IF ~Present(W.tree_loc, fn) THEN Crash(W, "AttributeError", fn)
           ELSE LET W1 == IF Present(W.fs, fn) THEN os_rmdir(W, fn) ELSE W
                IN  IF W1.crashed THEN W1
                    ELSE [W1 EXCEPT !.tree_loc = remove_node(@, fn)]

\* A variant of handle_deletions with the folders of each direction before
\* its documents.
handle_deletions_folders_first(W, dloc, drem) ==
  LET W1 == Fold(del_loc_folder, W, dloc.folders)
      W2 == Fold(del_loc_document, W1, dloc.documents)
      W3 == Fold(del_rem_folder, W2, drem.folders)
  IN  Fold(del_rem_document, W3, drem.documents)

handle_deletions(W, dloc, drem) ==
  LET W1 == Fold(del_loc_document, W, dloc.documents)
      W2 == Fold(del_loc_folder, W1, dloc.folders)
      W3 == Fold(del_rem_document, W2, drem.documents)
  IN  Fold(del_rem_folder, W3, drem.folders)

\* ------------------------------------------------------ _handle_changes
\* What _handle_changes does with a pair of sync states (local, remote).
\* A variant with the upload in the cell (local modified, remote new) and a
\* prompt in (local modified, remote equal).
handle_changes_action_swapped(l, r) ==
  IF r = None \/ l = None THEN "download"
  ELSE IF r = "modified" /\ l = "equal" THEN "download"
  ELSE IF r = "new" /\ l = "modified" THEN "upload"
  ELSE "askuser"

\* A variant that puts the unset states of a first sync to the prompt.
handle_changes_action_unset_asks(l, r) ==
  IF r = "equal" /\ l = "modified" THEN "upload"
  ELSE IF r = "modified" /\ l = "equal" THEN "download"
  ELSE "askuser"

handle_changes_action(l, r) ==
  IF r = None \/ l = None THEN "download"
  ELSE IF r = "equal" /\ l = "equal" THEN "askuser"
  ELSE IF r = "modified" /\ l = "modified" THEN "askuser"
  ELSE IF r = "new" /\ l = "new" THEN "askuser"
  ELSE IF r = "equal" /\ l = "modified" THEN "upload"
  ELSE IF r = "equal" /\ l = "new" THEN "askuser"
  ELSE IF r = "modified" /\ l = "equal" THEN "download"
  ELSE IF r = "new" /\ l = "equal" THEN "askuser"
  ELSE IF r = "modified" /\ l = "new" THEN "askuser"
  ELSE IF r = "new" /\ l = "modified" THEN "askuser"
  ELSE "nothing"

handle_changes(W, loc, rem) ==
  LET l == W.tree_loc[loc].sync_state
      r == W.remote_tree[rem].sync_state
      a == handle_changes_action(l, r)
  IN  IF a = "download" THEN Stamp(download_file(W, rem, loc, "handle_changes"), l, r)
      ELSE IF a = "upload" THEN Stamp(upload_file(W, loc, rem, "handle_changes"), l, r)
      ELSE IF a = "askuser"
           THEN [W EXCEPT !.asking = TRUE,
                          !.log = Append(@, Op("askuser", loc, "handle_changes", l, r))]
      ELSE W

\* A variant of askuser with the answers l and r exchanged.
askuser_exchanged(W, loc, rem, response) ==
  LET l == W.tree_loc[loc].sync_state
      r == W.remote_tree[rem].sync_state
      W0 == [W EXCEPT !.asking = FALSE]
  IN  IF response = "r" THEN Stamp(upload_file(W0, loc, rem, "askuser"), l, r)
      ELSE IF response = "l" THEN Stamp(download_file(W0, rem, loc, "askuser"), l, r)
      ELSE [W0 EXCEPT !.log = Append(@, Op("skip", loc, "askuser", l, r))]

\* _askuser once the input is one of l, r, s.
Responses == {"l", "r", "s"}

askuser(W, loc, rem, response) ==
  LET l == W.tree_loc[loc].sync_state
      r == W.remote_tree[rem].sync_state
      W0 == [W EXCEPT !.asking = FALSE]
  IN  IF response = "l" THEN Stamp(upload_file(W0, loc, rem, "askuser"), l, r)
      ELSE IF response = "r" THEN Stamp(download_file(W0, rem, loc, "askuser"), l, r)
      ELSE [W0 EXCEPT !.log = Append(@, Op("skip", loc, "askuser", l, r))]

\* ---------------------------------------------------- _cmp_local2remote
\* A variant of visit_remote that classifies every document found on both
\* sides, whatever the two sizes.
visit_remote_any_size(W, rem) ==
  LET loc == fix_path4local(rem)
      node_rem == W.remote_tree[rem]
      node_loc == get_node_by_path(W.tree_loc, loc)
  IN  IF node_loc # Absent
      THEN IF node_rem.entry_type = "document"
           THEN handle_changes(W, loc, rem)
           ELSE W
      ELSE IF node_rem.entry_type = "folder"
           THEN os_mkdir(W, loc)
           ELSE download_file(W, rem, loc, "cmp_local2remote")

\* The body of the first loop, for one remote node.
visit_remote(W, rem) ==
  LET loc == fix_path4local(rem)
      node_rem == W.remote_tree[rem]
      node_loc == get_node_by_path(W.tree_loc, loc)
  IN  IF node_loc # Absent
      THEN IF node_rem.entry_type = "document" /\ node_rem.file_size # node_loc.file_size
           THEN handle_changes(W, loc, rem)
           ELSE W
      ELSE IF node_rem.entry_type = "folder"
           THEN os_mkdir(W, loc)
           ELSE download_file(W, rem, loc, "cmp_local2remote")

\* A variant of visit_local that does not look whether the remote tree has
\* the node: every local folder is created, every local document uploaded.
visit_local_every_node(W, loc) ==
  IF W.crashed THEN W
  ELSE LET rem == fix_path4remote(loc)
       IN  IF W.tree_loc[loc].entry_type = "folder"
           THEN mkdir(W, rem, "cmp_local2remote")
           ELSE upload_file(W, loc, rem, "cmp_local2remote")

\* The body of the second loop, for one local node.
visit_local(W, loc) ==
  IF W.crashed THEN W
  ELSE LET rem == fix_path4remote(loc)
       IN  IF ~node_exists(W, rem)
           THEN IF W.tree_loc[loc].entry_type = "folder"
                THEN mkdir(W, rem, "cmp_local2remote")
                ELSE upload_file(W, loc, rem, "cmp_local2remote")
           ELSE W

\* The first loop from the nodes still to visit, up to the next prompt;
\* `rest` is what is left to visit after it.
RECURSIVE first_loop(_, _)
first_loop(W, todo) ==
  IF todo = <<>> \/ W.crashed THEN [world |-> W, rest |-> <<>>]
  ELSE CHOOSE r \in {IF W1.asking THEN [world |-> W1, rest |-> todo]
                      ELSE first_loop(W1, Tail(todo)) :
                        W1 \in {visit_remote(w, Head(todo)) : w \in {W}}} : TRUE

second_loop(W) == Fold(visit_local, W, PreOrderIter(W.tree_loc, LocOrder))

\* _cmp_local2remote from the nodes still to visit: the rest of the first
\* loop and, unless a prompt interrupts, the second loop.
cmp_local2remote(W, todo) ==
  CHOOSE res \in {IF one.world.asking THEN one
                  ELSE [world |-> second_loop(one.world), rest |-> <<>>] :
                    one \in {first_loop(W, todo)}} : TRUE

\* ------------------------------------------------------------------- state
VARIABLES
  fs,              \* the local directory: LocPaths -> entry
  dev,             \* the device's store: RemPaths -> entry
  statefile_loc,   \* <local>/.dp_syncstate_local
  statefile_rem,   \* <local>/.dp_syncstate_remote
  remote_tree,     \* DPManager._remote_tree, with the sync states of the run
  tree_loc,        \* the run's LocalTree, with its sync states
  deletions_loc,   \* deleted_nodes of _cmp_local2old
  deletions_rem,   \* deleted_nodes of _cmp_remote2old
  pc,              \* where sync_folder is
  todo,            \* remote nodes of the first loop not yet done
  log,             \* what the current run has done
  last,            \* "changed": something changed outside since the last
                   \* completed run (or there was none); otherwise what
                   \* that run was, a "first" sync or a "later" one
  after            \* the value of `last` when the current run started

vars == <<fs, dev, statefile_loc, statefile_rem, remote_tree, tree_loc,
          deletions_loc, deletions_rem, pc, todo, log, last, after>>

memory == <<remote_tree, tree_loc, deletions_loc, deletions_rem, todo>>
sides == <<fs, dev>>
statefiles == <<statefile_loc, statefile_rem>>

Init ==
  /\ fs = EmptyLocal
  /\ dev = EmptyRemote
  /\ statefile_loc = NoFile(NoTreeLoc)
  /\ statefile_rem = NoFile(NoTreeRem)
  /\ remote_tree = NoTreeRem
  /\ tree_loc = NoTreeLoc
  /\ deletions_loc = NoDeletions
  /\ deletions_rem = NoDeletions
  /\ pc = "idle"
  /\ todo = <<>>
  /\ log = <<>>
  /\ last = "changed"
  /\ after = "changed"

\* ------------------------------------------------------- the environment
\* Between two runs somebody creates, rewrites or removes one local entry.
LocalChange ==
  /\ pc = "idle"
  /\ \E p \in LocPaths \ LocalRoots : \E e \in EntriesAt(p) :
       /\ e # fs[p]
       /\ WellFormed([fs EXCEPT ![p] = e], LocalRoots)
       /\ fs' = [fs EXCEPT ![p] = e]
  /\ last' = "changed"
  /\ UNCHANGED <<dev, statefiles, memory, pc, log, after>>

\* ... or one entry on the device.
RemoteChange ==
  /\ pc = "idle"
  /\ \E p \in Range(RemOrder) \ RemoteRoots : \E e \in EntriesAt(p) :
       /\ e # dev[p]
       /\ WellFormed([dev EXCEPT ![p] = e], RemoteRoots)
       /\ dev' = [dev EXCEPT ![p] = e]
  /\ last' = "changed"
  /\ UNCHANGED <<fs, statefiles, memory, pc, log, after>>

\* ... or removes one of the two snapshot files.
RemoveStateFile ==
  /\ pc = "idle"
  /\ \/ /\ statefile_loc.exists
        /\ statefile_loc' = NoFile(NoTreeLoc)
        /\ UNCHANGED statefile_rem
     \/ /\ statefile_rem.exists
        /\ statefile_rem' = NoFile(NoTreeRem)
        /\ UNCHANGED statefile_loc
  /\ last' = "changed"
  /\ UNCHANGED <<sides, memory, pc, log, after>>

\* ---------------------------------------------------------------- a run
World(now) ==
  [fs |-> fs, dev |-> dev, remote_tree |-> remote_tree, tree_loc |-> tree_loc,
   log |-> log, crashed |-> FALSE, asking |-> FALSE, now |-> now]

Commit(W, next) ==
  /\ fs' = W.fs
  /\ dev' = W.dev
  /\ remote_tree' = W.remote_tree
  /\ tree_loc' = W.tree_loc
  /\ log' = W.log
  /\ pc' = IF W.crashed THEN "crashed" ELSE IF W.asking THEN "askuser" ELSE next

\* The nodes below the start node of a saved or walked remote tree.
Subtree(tree) == [p \in DOMAIN tree |-> IF IsPrefix(remote_root, p) THEN tree[p] ELSE Absent]

\* DPManager.__init__ -> _build_tree: the remote tree is listed from the device.
BuildTree ==
  /\ pc = "idle"
  /\ remote_tree' = dev
  /\ after' = last
  /\ pc' = "cmp_remote2old"
  /\ UNCHANGED <<sides, statefiles, tree_loc, deletions_loc, deletions_rem, todo, log, last>>

CmpRemote2Old ==
  /\ pc = "cmp_remote2old"
  /\ IF load_raises(statefile_rem)
     THEN /\ pc' = "crashed"
          /\ log' = Append(log, Op("JSONDecodeError", remote_root, "exception", None, None))
          /\ UNCHANGED <<remote_tree, deletions_rem>>
     ELSE /\ deletions_rem' = cmp_deleted(statefile_rem, remote_tree, RemOrder)
          /\ remote_tree' = cmp_tree(statefile_rem, remote_tree, RemOrder)
          /\ pc' = "cmp_local2old"
          /\ UNCHANGED log
  /\ UNCHANGED <<sides, statefiles, tree_loc, deletions_loc, todo, last, after>>

\* LocalTree.rebuild_tree walks the directory: folders and .pdf files.
CmpLocal2Old ==
  /\ pc = "cmp_local2old"
  /\ IF load_raises(statefile_loc)
     THEN /\ pc' = "crashed"
          /\ log' = Append(log, Op("JSONDecodeError", <<local_root_name>>, "exception",
                                   None, None))
          /\ UNCHANGED <<tree_loc, deletions_loc>>
     ELSE /\ deletions_loc' = cmp_deleted(statefile_loc, fs, LocOrder)
          /\ tree_loc' = cmp_tree(statefile_loc, fs, LocOrder)
          /\ pc' = "handle_deletions"
          /\ UNCHANGED log
  /\ UNCHANGED <<sides, statefiles, remote_tree, deletions_rem, todo, last, after>>

\* A variant of HandleDeletions that writes the two snapshot files as soon as
\* the deletions are propagated.
HandleDeletions_saving ==
  /\ pc = "handle_deletions"
  /\ \E W \in {handle_deletions(World(NoDate), deletions_loc, deletions_rem)} :
       Commit(W, "cmp_local2remote")
  /\ statefile_rem' = File(Subtree(remote_tree))
  /\ statefile_loc' = File(tree_loc)
  /\ UNCHANGED <<deletions_loc, deletions_rem, todo, last, after>>

HandleDeletions ==
  /\ pc = "handle_deletions"
  /\ \E W \in {handle_deletions(World(NoDate), deletions_loc, deletions_rem)} :
       Commit(W, "cmp_local2remote")
  /\ UNCHANGED <<statefiles, deletions_loc, deletions_rem, todo, last, after>>

\* A variant of CmpLocal2Remote whose first loop walks the whole remote
\* tree, from "Document" down, and not the subtree of the remote root.
CmpLocal2Remote_whole_tree ==
  /\ pc = "cmp_local2remote"
  /\ \E now \in Dates :
       LET whole == <<<<"Document">>>> \o RemOrder \o <<Outside>>
           res == cmp_local2remote(World(now), PreOrderIter(remote_tree, whole))
       IN  Commit(res.world, "save_sync_state") /\ todo' = res.rest
  /\ UNCHANGED <<statefiles, deletions_loc, deletions_rem, last, after>>

CmpLocal2Remote ==
  /\ pc = "cmp_local2remote"
  /\ \E now \in Dates :
       \E res \in {cmp_local2remote(World(now), PreOrderIter(remote_tree, RemOrder))} :
          Commit(res.world, "save_sync_state") /\ todo' = res.rest
  /\ UNCHANGED <<statefiles, deletions_loc, deletions_rem, last, after>>

\* The prompt returns; the run goes on to the next prompt or to the end.
AskUser ==
  /\ pc = "askuser"
  /\ \E response \in Responses, now \in Dates :
       LET rem == Head(todo)
           loc == fix_path4local(rem)
           W0 == Did(World(now), "input", loc, response)
           W1 == askuser(W0, loc, rem, response)
       IN  \E res \in {cmp_local2remote(W1, Tail(todo))} :
              Commit(res.world, "save_sync_state") /\ todo' = res.rest
  /\ UNCHANGED <<statefiles, deletions_loc, deletions_rem, last, after>>

\* A variant of SaveSyncState that writes the two trees the run has worked
\* on, without listing the device and the directory again.
SaveSyncState_memory ==
  /\ pc = "save_sync_state"
  /\ remote_tree' = dev
  /\ statefile_rem' = File(Subtree(remote_tree))
  /\ statefile_loc' = File(tree_loc)
  /\ last' = IF statefile_loc.exists \/ statefile_rem.exists THEN "later" ELSE "first"
  /\ pc' = "done"
  /\ UNCHANGED <<sides, tree_loc, deletions_loc, deletions_rem, todo, log, after>>

\* _save_sync_state: both trees are built afresh and written.
SaveSyncState ==
  /\ pc = "save_sync_state"
  /\ remote_tree' = dev
  /\ statefile_rem' = File(load_from_file(save_to_file(dev, RemOrder, remote_root), RemPaths))
  /\ statefile_loc' = File(load_from_file(save_to_file(fs, LocOrder, <<local_root_name>>),
                                          LocPaths))
  /\ last' = IF statefile_loc.exists \/ statefile_rem.exists THEN "later" ELSE "first"
  /\ pc' = "done"
  /\ UNCHANGED <<sides, tree_loc, deletions_loc, deletions_rem, todo, log, after>>

\* The process ends, after sync_folder has returned or on an exception.
Exit ==
  /\ pc \in {"done", "crashed"}
  /\ pc' = "idle"
  /\ last' = IF pc = "crashed" THEN "changed" ELSE last
  /\ remote_tree' = NoTreeRem
  /\ tree_loc' = NoTreeLoc
  /\ deletions_loc' = NoDeletions
  /\ deletions_rem' = NoDeletions
  /\ todo' = <<>>
  /\ log' = <<>>
  /\ after' = "changed"
  /\ UNCHANGED <<sides, statefiles>>

Next ==
  \/ LocalChange
  \/ RemoteChange
  \/ RemoveStateFile
  \/ BuildTree
  \/ CmpRemote2Old
  \/ CmpLocal2Old
  \/ HandleDeletions
  \/ CmpLocal2Remote
  \/ AskUser
  \/ SaveSyncState
  \/ Exit

Spec == Init /\ [][Next]_vars

TypeOK ==
  /\ WellFormed(fs, LocalRoots)
  /\ WellFormed(dev, RemoteRoots)
  /\ pc \in {"idle", "cmp_remote2old", "cmp_local2old", "handle_deletions",
             "cmp_local2remote", "askuser", "save_sync_state", "done", "crashed"}

\* ------------------------------------------------------ the diff alone
\* The two diffs on any pair of an old and a current tree of one side,
\* with an entry that is a document in one tree and a folder in the other
\* (a directory named b.pdf; a document put in its place).
PathOf(side, r) == IF side = "local" THEN LocOf(r) ELSE RemOf(r)

AnyTree(side, f, b, g) ==
  [p \in (IF side = "local" THEN LocPaths ELSE RemPaths) |->
     IF p = PathOf(side, <<"F">>) THEN f
     ELSE IF p = PathOf(side, <<"F", "b.pdf">>) THEN (IF f = Folder THEN b ELSE Absent)
     ELSE IF p = PathOf(side, <<"F", "G">>) THEN (IF f = Folder THEN g ELSE Absent)
     ELSE Folder]

AnyTrees(side) ==
  {AnyTree(side, f, b, g) :
     f \in {Absent, Folder},
     b \in {Absent, Folder} \cup {Document(s, m) : s \in Sizes, m \in Dates},
     g \in {Absent, Folder}}

InitDiff ==
  /\ \E side \in {"local", "remote"} :
       /\ fs \in (IF side = "local" THEN AnyTrees("local") ELSE {EmptyLocal})
       /\ dev \in (IF side = "remote" THEN AnyTrees("remote") ELSE {EmptyRemote})
       /\ statefile_loc \in
            {NoFile(NoTreeLoc), CorruptFile(NoTreeLoc)}
              \cup (IF side = "local" THEN {File(t) : t \in AnyTrees("local")} ELSE {})
       /\ statefile_rem \in
            {NoFile(NoTreeRem), CorruptFile(NoTreeRem)}
              \cup (IF side = "remote" THEN {File(Subtree(t)) : t \in AnyTrees("remote")}
                    ELSE {})
  /\ remote_tree = NoTreeRem
  /\ tree_loc = NoTreeLoc
  /\ deletions_loc = NoDeletions
  /\ deletions_rem = NoDeletions
  /\ pc = "idle"
  /\ todo = <<>>
  /\ log = <<>>
  /\ last = "changed"
  /\ after = "changed"

NextDiff == BuildTree \/ CmpRemote2Old \/ CmpLocal2Old

DiffSpec == InitDiff /\ [][NextDiff]_vars

\* ------------------------------------------------ the path translation
\* The ways of writing the remote root that sync_folder takes: it finds the
\* start node with dp_mgr.get_node(remote), which looks up fix_path(remote).
RootForms ==
  {root \in {<<"Document", "R">>, <<"Document", "R", "">>, <<"R">>, <<"R", "">>} :
     fix_path(root) = remote_root}

\* The translations logged per specification run.
MaxCalls == 2

\* One call of _fix_path4local on the path of a remote node, the result
\* translated back; the log entry has the root in `via`, the local path
\* in `l` and the remote path that comes back in `r`.
Fix4Local ==
  /\ Len(log) < MaxCalls
  /\ \E root \in RootForms, rel \in RelSet :
       LET loc == fix_path4local_from(root, RemOf(rel))
       IN  log' = Append(log, Op("fix_path4local", RemOf(rel), root,
                                 loc, fix_path4remote_to(root, loc)))
  /\ UNCHANGED <<sides, statefiles, memory, pc, last, after>>

\* One call of _fix_path4remote on the path of a local node, the result
\* translated back: the remote path in `r`, the local path that comes back in `l`.
Fix4Remote ==
  /\ Len(log) < MaxCalls
  /\ \E root \in RootForms, rel \in RelSet :
       LET rem == fix_path4remote_to(root, LocOf(rel))
       IN  log' = Append(log, Op("fix_path4remote", LocOf(rel), root,
                                 fix_path4local_from(root, rem), rem))
  /\ UNCHANGED <<sides, statefiles, memory, pc, last, after>>

NextPath == Fix4Local \/ Fix4Remote

PathSpec == Init /\ [][NextPath]_vars

\* --------------------------------------------------------- progress
\* A run is one process that goes from statement to statement: a step of
\* the run that can be taken is taken, and the prompt returns an answer.
RunStep ==
  \/ CmpRemote2Old
  \/ CmpLocal2Old
  \/ HandleDeletions
  \/ CmpLocal2Remote
  \/ AskUser
  \/ SaveSyncState

LiveSpec == Init /\ [][Next]_vars /\ WF_vars(RunStep)

\* ================================================================== claims
Idx == 1..Len(log)

\* What changes the device's store or the local directory.
Mutations == {"rm_file", "rm_dir", "mkdir", "upload",
              "download", "os.remove", "os.rmdir", "os.mkdir"}

Count(op, path) == Cardinality({k \in Idx : log[k].op = op /\ log[k].path = path})

\* The run is about to reconcile or has: both diffs are done.
AfterDiff == pc = "handle_deletions"

\* No persisted snapshot on either side.
FirstSync == ~statefile_loc.exists /\ ~statefile_rem.exists

\* The entry r below the roots is a document on both sides, of two sizes,
\* with the sync states l (local) and r (remote).
ClassifiedAs(rel, l, r) ==
  /\ tree_loc[LocOf(rel)].entry_type = "document"
  /\ remote_tree[RemOf(rel)].entry_type = "document"
  /\ tree_loc[LocOf(rel)].file_size # remote_tree[RemOf(rel)].file_size
  /\ tree_loc[LocOf(rel)].sync_state = l
  /\ remote_tree[RemOf(rel)].sync_state = r

\* C1: a run that follows a completed run, with nothing changed outside in
\* between, uploads, downloads, creates and deletes nothing.
C1_Idempotence ==
  (pc = "done" /\ after # "changed") => \A k \in Idx : log[k].op \notin Mutations

\* C2: a document that is modified locally and equal remotely, of two sizes
\* on the two sides, is uploaded by the run without a prompt, and the
\* device then holds it with the local size.
C2_ScenarioB ==
  pc \in {"save_sync_state", "crashed"} =>
    \A rel \in RelSet : ClassifiedAs(rel, "modified", "equal") =>
       /\ Count("upload", RemOf(rel)) = 1
       /\ Count("askuser", LocOf(rel)) = 0
       /\ dev[RemOf(rel)].file_size = tree_loc[LocOf(rel)].file_size

\* The same for the runs that get as far as the reconciliation.
ScenarioB_Reconciled ==
  pc = "save_sync_state" =>
    \A rel \in RelSet : ClassifiedAs(rel, "modified", "equal") =>
       /\ Count("upload", RemOf(rel)) = 1
       /\ Count("askuser", LocOf(rel)) = 0
       /\ dev[RemOf(rel)].file_size = tree_loc[LocOf(rel)].file_size

\* The decision table as the specification prints it, and as Scenario B
\* needs it: indexed by (local state, remote state).
PrintedTable(l, r) ==
  IF l = "equal" /\ r = "modified" THEN "download"
  ELSE IF l = "modified" /\ r = "new" THEN "upload"
  ELSE "askuser"

AmendedTable(l, r) ==
  IF l = "equal" /\ r = "modified" THEN "download"
  ELSE IF l = "modified" /\ r = "equal" THEN "upload"
  ELSE "askuser"

Classified(k) ==
  log[k].via = "handle_changes" /\ log[k].l \in SyncStates /\ log[k].r \in SyncStates

\* C3 as claimed: every classified conflict is treated as the printed table
\* says: upload iff (modified, new), download iff (equal, modified), a
\* prompt otherwise.
C3_PrintedTable ==
  \A k \in Idx : Classified(k) => log[k].op = PrintedTable(log[k].l, log[k].r)

\* C3 amended: upload iff (local modified, remote equal), download iff
\* (local equal, remote modified), a prompt for the seven other pairs,
\* (local modified, remote new) among them.
C3_DecisionTable ==
  \A k \in Idx : Classified(k) => log[k].op = AmendedTable(log[k].l, log[k].r)

C3_Witness ==
  \E k \in Idx : Classified(k) /\ log[k].l = "modified" /\ log[k].r = "equal"
                 /\ log[k].op = "upload"

\* C4: after the prompt has returned, answer l has caused exactly one upload
\* and the device holds the local size, answer r exactly one download and
\* the local file has the remote size, answer s nothing: no transfer, no
\* deletion, both sizes as they were and still different.
C4_ResolutionOutcomes ==
  \A k \in Idx : log[k].op = "input" =>
    LET loc == log[k].path
        rem == fix_path4remote(loc)
        local_kept == fs[loc].file_size = tree_loc[loc].file_size
        remote_kept == pc = "done" \/ dev[rem].file_size = remote_tree[rem].file_size
    IN  /\ log[k].via = "l" =>
             /\ Count("upload", rem) = 1 /\ Count("download", loc) = 0
             /\ dev[rem].entry_type = "document"
             /\ dev[rem].file_size = tree_loc[loc].file_size
             /\ local_kept
        /\ log[k].via = "r" =>
             /\ Count("download", loc) = 1 /\ Count("upload", rem) = 0
             /\ fs[loc].entry_type = "document"
             /\ fs[loc].file_size = dev[rem].file_size
             /\ remote_kept
        /\ log[k].via = "s" =>
             /\ Count("upload", rem) = 0 /\ Count("download", loc) = 0
             /\ Count("rm_file", rem) = 0 /\ Count("os.remove", loc) = 0
             /\ local_kept /\ remote_kept
             /\ fs[loc].file_size # dev[rem].file_size

C4_Witness ==
  \E k \in Idx : log[k].op = "input" /\ log[k].via = "l"
                 /\ Count("upload", fix_path4remote(log[k].path)) = 1

\* C5: a document modified on both sides to two sizes is put to the prompt;
\* after answer s neither side's document has changed and each snapshot
\* written at the end of the run has its own side's size.
C5_ScenarioC ==
  /\ pc \in {"save_sync_state", "crashed"} =>
       \A rel \in RelSet : ClassifiedAs(rel, "modified", "modified") =>
          Count("askuser", LocOf(rel)) = 1
  /\ pc \in {"save_sync_state", "done"} =>
       \A k \in Idx : (log[k].op = "skip" /\ log[k].l = "modified" /\ log[k].r = "modified") =>
          LET loc == log[k].path
              rem == fix_path4remote(loc)
          IN  /\ fs[loc].file_size = tree_loc[loc].file_size
              /\ pc = "save_sync_state" => dev[rem].file_size = remote_tree[rem].file_size
              /\ fs[loc].file_size # dev[rem].file_size
              /\ pc = "done" => /\ statefile_loc.tree[loc].file_size = fs[loc].file_size
                                /\ statefile_rem.tree[rem].file_size = dev[rem].file_size

\* The second half alone, which no exception touches.
ScenarioC_Skipped ==
  pc \in {"save_sync_state", "done"} =>
       \A k \in Idx : (log[k].op = "skip" /\ log[k].l = "modified" /\ log[k].r = "modified") =>
          LET loc == log[k].path
              rem == fix_path4remote(loc)
          IN  /\ fs[loc].file_size = tree_loc[loc].file_size
              /\ pc = "save_sync_state" => dev[rem].file_size = remote_tree[rem].file_size
              /\ fs[loc].file_size # dev[rem].file_size
              /\ pc = "done" => /\ statefile_loc.tree[loc].file_size = fs[loc].file_size
                                /\ statefile_rem.tree[rem].file_size = dev[rem].file_size

\* Scenario D for the entry rel, as the deletions are about to be handled:
\* a folder of the local snapshot is gone locally, the device is as the
\* remote snapshot has it, and the folder is empty there.
ScenarioD(rel) ==
  /\ pc = "handle_deletions"
  /\ statefile_loc.exists
  /\ statefile_loc.tree[LocOf(rel)].entry_type = "folder"
  /\ ~Present(fs, LocOf(rel))
  /\ statefile_rem.exists
  /\ statefile_rem.tree = Subtree(dev)
  /\ dev[RemOf(rel)].entry_type = "folder"
  /\ Children(dev, RemOf(rel)) = {}

\* C6: in Scenario D the handling of the deletions deletes the folder on
\* the device and takes its node out of the remote tree before the
\* reconciliation starts, and no run creates a folder it found deleted.
C6_ScenarioD ==
  /\ [][\A rel \in RelSet : ScenarioD(rel) =>
          /\ pc' = "cmp_local2remote"
          /\ ~Present(dev', RemOf(rel))
          /\ ~Present(remote_tree', RemOf(rel))]_vars
  /\ [](\A k \in Idx : log[k].op \in {"mkdir", "os.mkdir"} =>
          /\ log[k].path \notin Range(deletions_loc.folders)
          /\ fix_path4local(log[k].path) \notin Range(deletions_loc.folders))

\* C7: a first sync brings every remote entry that was missing locally to
\* the local directory, does not fail, writes both snapshots, and the run
\* right after it changes nothing.
C7_ScenarioA ==
  /\ (pc = "save_sync_state" /\ FirstSync) =>
       \A rel \in RelSet :
         (Present(remote_tree, RemOf(rel)) /\ ~Present(tree_loc, LocOf(rel))) =>
            /\ fs[LocOf(rel)].entry_type = remote_tree[RemOf(rel)].entry_type
            /\ fs[LocOf(rel)].file_size = remote_tree[RemOf(rel)].file_size
  /\ pc = "crashed" => ~FirstSync
  /\ pc = "done" => statefile_loc.exists /\ statefile_rem.exists
  /\ (pc = "done" /\ after = "first") => \A k \in Idx : log[k].op \notin Mutations

\* C8: during a first sync nothing is put to the prompt.
C8_FirstSyncNeverAsks ==
  (FirstSync /\ pc # "idle") =>
     /\ pc # "askuser"
     /\ \A k \in Idx : log[k].op \notin {"askuser", "input", "skip"}

C8_Witness ==
  /\ FirstSync
  /\ \E k \in Idx : /\ log[k].via = "handle_changes" /\ log[k].op = "download"
                    /\ log[k].l = None /\ log[k].r = None

\* The nodes of the two current snapshots.
LocalNodes == {p \in LocPaths : Present(tree_loc, p)}
RemoteNodes == {p \in Range(RemOrder) : Present(remote_tree, p)}

C10_ModifiedIffSizeDiffers ==
  AfterDiff =>
    /\ \A p \in LocalNodes :
         (statefile_loc.exists /\ statefile_loc.tree[p].entry_type = "document"
            /\ tree_loc[p].entry_type = "document") =>
         tree_loc[p].sync_state =
           IF statefile_loc.tree[p].file_size # tree_loc[p].file_size
           THEN "modified" ELSE "equal"
    /\ \A p \in RemoteNodes :
         (statefile_rem.exists /\ statefile_rem.tree[p].entry_type = "document"
            /\ remote_tree[p].entry_type = "document") =>
         remote_tree[p].sync_state =
           IF statefile_rem.tree[p].file_size # remote_tree[p].file_size
           THEN "modified" ELSE "equal"

\* Equal sizes with two dates on one side, two sizes with one date on the other.
C10_Witness ==
  /\ AfterDiff
  /\ statefile_loc.exists /\ statefile_rem.exists
  /\ \E p \in LocalNodes :
       /\ statefile_loc.tree[p].entry_type = "document"
       /\ statefile_loc.tree[p].file_size = tree_loc[p].file_size
       /\ statefile_loc.tree[p].modified_date # tree_loc[p].modified_date
       /\ tree_loc[p].sync_state = "equal"
  /\ \E p \in RemoteNodes :
       /\ statefile_rem.tree[p].entry_type = "document"
       /\ statefile_rem.tree[p].file_size # remote_tree[p].file_size
       /\ statefile_rem.tree[p].modified_date = remote_tree[p].modified_date
       /\ remote_tree[p].sync_state = "modified"

\* The paths of a side that its snapshot file has and its current tree has not.
DeletedLoc == {p \in LocPaths : Present(statefile_loc.tree, p) /\ ~Present(tree_loc, p)}
DeletedRem == {p \in RemPaths : Present(statefile_rem.tree, p) /\ ~Present(remote_tree, p)}

\* An entry of one kind in the snapshot file and of the other in the current tree.
KindChanged(old, cur, p) ==
  /\ Present(old, p) /\ Present(cur, p)
  /\ old[p].entry_type # cur[p].entry_type

BucketOf(deletions, node) ==
  IF node.entry_type = "document" THEN Range(deletions.documents)
  ELSE Range(deletions.folders)

\* C11: after the diff a path that has changed its kind since the snapshot
\* is in the deletion bucket of its old kind and its current node is "new".
C11_KindChange ==
  AfterDiff =>
    /\ \A p \in LocPaths :
         (statefile_loc.exists /\ KindChanged(statefile_loc.tree, tree_loc, p)) =>
            /\ tree_loc[p].sync_state = "new"
            /\ p \in BucketOf(deletions_loc, statefile_loc.tree[p])
    /\ \A p \in RemPaths :
         (statefile_rem.exists /\ KindChanged(statefile_rem.tree, remote_tree, p)) =>
            /\ remote_tree[p].sync_state = "new"
            /\ p \in BucketOf(deletions_rem, statefile_rem.tree[p])

\* A sequence without repetitions.
NoRepeat(s) == Cardinality(Range(s)) = Len(s)

\* The two buckets hold exactly the paths of `deleted`, each once, each in
\* the bucket of the kind the old tree has it with.
ExactDeletions(deletions, old, deleted) ==
  /\ Range(deletions.documents) = {p \in deleted : old[p].entry_type = "document"}
  /\ Range(deletions.folders) = {p \in deleted : old[p].entry_type # "document"}
  /\ Range(deletions.documents) \cap Range(deletions.folders) = {}
  /\ NoRepeat(deletions.documents) /\ NoRepeat(deletions.folders)

\* C12: after the diff the deletion set of a side is exactly the paths its
\* snapshot file has and its current tree has not, each once and in the
\* bucket of its old kind; without a snapshot file both buckets are empty.
C12_DeletionSets ==
  AfterDiff =>
    /\ IF statefile_loc.exists
       THEN ExactDeletions(deletions_loc, statefile_loc.tree, DeletedLoc)
       ELSE deletions_loc = NoDeletions
    /\ IF statefile_rem.exists
       THEN ExactDeletions(deletions_rem, statefile_rem.tree, DeletedRem)
       ELSE deletions_rem = NoDeletions

C12_Witness ==
  /\ AfterDiff
  /\ statefile_rem.exists
  /\ Len(deletions_rem.documents) = 1
  /\ Len(deletions_rem.folders) = 2

\* C13: whatever way of writing the remote root sync_folder was given, a
\* remote path translated to local and back is the path itself and the
\* local path is that of the same relative position; so for a local path
\* translated to remote and back.
C13_Bijection ==
  \A k \in Idx :
    /\ log[k].op = "fix_path4local" =>
         /\ log[k].r = log[k].path
         /\ \E rel \in RelSet : log[k].path = RemOf(rel) /\ log[k].l = LocOf(rel)
    /\ log[k].op = "fix_path4remote" =>
         /\ log[k].l = log[k].path
         /\ \E rel \in RelSet : log[k].path = LocOf(rel) /\ log[k].r = RemOf(rel)

\* C14: when a run has completed, the remote snapshot file is the device's
\* store below the remote root and the local one the local directory, as
\* they are at that moment; what the run tried without effect is in neither.
C14_SnapshotTruthful ==
  pc = "done" =>
    /\ statefile_rem = File(Subtree(dev))
    /\ statefile_loc = File(fs)
    /\ \A k \in Idx : log[k].op = "rm_dir_rejected" =>
         Present(statefile_rem.tree, log[k].path) = Present(dev, log[k].path)
    /\ \A k \in Idx : log[k].op = "upload_failed" =>
         statefile_rem.tree[log[k].path] = dev[log[k].path]

\* A completed run with a rejected deletion: the folder is still in the
\* remote snapshot and not in the local one.
C14_Witness ==
  /\ pc = "done"
  /\ \E k \in Idx : /\ log[k].op = "rm_dir_rejected"
                    /\ Present(statefile_rem.tree, log[k].path)
                    /\ ~Present(statefile_loc.tree, fix_path4local(log[k].path))

\* The exceptions of the file system calls.
IOErrors == {"OSError", "FileExistsError", "FileNotFoundError"}

\* C15: no failing file system or transfer operation ends the run: a run
\* never stops on the exception of one.
C15_FailureIsolated ==
  \A k \in Idx : ~(log[k].via = "exception" /\ log[k].op \in IOErrors)

\* C16: a path that one side's deletion set has and the other side's
\* current tree has not does not end the run: no run stops on the
\* AttributeError of a lookup that found no node.
C16_AbsenceNotFatal ==
  \A k \in Idx : ~(log[k].via = "exception" /\ log[k].op = "AttributeError")

\* A run that has found one of the two snapshot files and not the other.
OneFileRun ==
  /\ pc \in {"handle_deletions", "cmp_local2remote", "askuser", "save_sync_state", "crashed"}
  /\ statefile_loc.exists # statefile_rem.exists

\* What the handling of the deletions does, or tries.
Propagations == {"rm_file", "rm_dir", "rm_dir_rejected", "os.remove", "os.rmdir"}

\* C17: a run that finds only one of the two snapshot files propagates no
\* deletion, to neither side, and puts nothing to the prompt.
C17_OneFileIsFirstSync ==
  OneFileRun =>
    /\ pc # "askuser"
    /\ \A k \in Idx :
         /\ log[k].op \notin {"askuser", "input", "skip"}
         /\ ~(log[k].via = "handle_deletions" /\ log[k].op \in Propagations)

\* The half of it that no deletion set touches: nothing is put to the prompt.
OneFileNeverAsks ==
  OneFileRun =>
    /\ pc # "askuser"
    /\ \A k \in Idx : log[k].op \notin {"askuser", "input", "skip"}

\* C18: loading a snapshot file never stops a run: no run ends on the
\* exception of the load, and a side whose file is missing or unreadable
\* is diffed as one without history (no deletions, no sync states).
C18_LoadNeverFails ==
  /\ \A k \in Idx : ~(log[k].via = "exception" /\ log[k].op = "JSONDecodeError")
  /\ AfterDiff =>
       /\ (~statefile_loc.exists \/ statefile_loc.corrupt) =>
            /\ deletions_loc = NoDeletions
            /\ \A p \in LocPaths : tree_loc[p].sync_state = None
       /\ (~statefile_rem.exists \/ statefile_rem.corrupt) =>
            /\ deletions_rem = NoDeletions
            /\ \A p \in RemPaths : remote_tree[p].sync_state = None

\* The part of it about a file that is not there.
MissingFileIsNoHistory ==
  AfterDiff =>
       /\ ~statefile_loc.exists =>
            /\ deletions_loc = NoDeletions
            /\ \A p \in LocPaths : tree_loc[p].sync_state = None
       /\ ~statefile_rem.exists =>
            /\ deletions_rem = NoDeletions
            /\ \A p \in RemPaths : remote_tree[p].sync_state = None

\* The written file has every node once, below the node that has its
\* parent's path, and loading it gives the tree `expected`.
RoundTrip(tree, order, start, expected) ==
  LET data == save_to_file(tree, order, start)
      dicts == import(<<data>>)
  IN  /\ load_from_file(data, DOMAIN tree) = expected
      /\ Len(dicts) = Cardinality({p \in DOMAIN tree : Present(expected, p)})
      /\ \A k \in 1..Len(dicts) :
           \A c \in 1..Len(dicts[k].children) :
              Parent(dicts[k].children[c].path) = dicts[k].path

StepBefore(step) ==
  CASE step = "cmp_remote2old" -> {"idle"}
    [] step = "cmp_local2old" -> {"cmp_remote2old"}
    [] step = "handle_deletions" -> {"cmp_local2old"}
    [] step = "cmp_local2remote" -> {"handle_deletions"}
    [] step = "askuser" -> {"cmp_local2remote", "askuser"}
    [] step = "save_sync_state" -> {"cmp_local2remote", "askuser"}
    [] step = "done" -> {"save_sync_state"}
    [] step = "crashed" -> {"cmp_remote2old", "cmp_local2old", "handle_deletions",
                            "cmp_local2remote", "askuser"}
    [] OTHER -> {"done", "crashed"}

\* C20: within a run the two snapshot files are written only by the last
\* step, which is reached only through build, diff, deletion propagation and
\* reconciliation in that order; every other step of a run, the one that aborts
\* it included, leaves both files as they were, so that after an aborted run
\* they are what they were before it.
C20_PersistLast ==
  [][/\ pc' # pc => pc \in StepBefore(pc')
     /\ (pc # "idle" /\ statefiles' # statefiles) => (pc = "save_sync_state" /\ pc' = "done")
     /\ pc' = "crashed" => statefiles' = statefiles]_vars

\* A run of a later sync has aborted after it had changed something on one
\* side; both snapshot files exist.
C20_Witness ==
  /\ pc = "crashed"
  /\ statefile_loc.exists /\ statefile_rem.exists
  /\ \E k \in DOMAIN log : log[k].op \in Mutations


\* C21: when the reconciliation is over, every node of the local tree whose
\* translated path has no node in the remote tree is in the device's store,
\* a folder as a folder and a document with the local size; so a new local
\* folder is there with its sub-folders and documents at the end of the run.
C21_PassTwo ==
  pc = "save_sync_state" =>
    \A rel \in RelSet :
      (Present(tree_loc, LocOf(rel)) /\ ~Present(remote_tree, RemOf(rel))) =>
         /\ dev[RemOf(rel)].entry_type = tree_loc[LocOf(rel)].entry_type
         /\ dev[RemOf(rel)].file_size = tree_loc[LocOf(rel)].file_size

\* The same for the entries directly inside a folder that the remote tree has.
PassTwo_InKnownFolder ==
  pc = "save_sync_state" =>
    \A rel \in RelSet :
      (/\ Present(tree_loc, LocOf(rel)) /\ ~Present(remote_tree, RemOf(rel))
       /\ Present(remote_tree, Parent(RemOf(rel)))) =>
         /\ dev[RemOf(rel)].entry_type = tree_loc[LocOf(rel)].entry_type
         /\ dev[RemOf(rel)].file_size = tree_loc[LocOf(rel)].file_size


\* C22: after the device has rejected the deletion of a folder that is not
\* empty, the folder is still in the device's store and, for the rest of
\* the run, its node is still in the remote tree.
C22_RejectionLeavesNode ==
  \A k \in Idx : log[k].op = "rm_dir_rejected" =>
    /\ Present(dev, log[k].path)
    /\ pc \in {"cmp_local2remote", "askuser", "save_sync_state"} =>
         Present(remote_tree, log[k].path)

\* The half about the device's store, and that the run goes on: the folder
\* and what it holds stay, and the rejection is not logged as an exception.
RejectionKeepsStore ==
  \A k \in Idx : log[k].op = "rm_dir_rejected" =>
    /\ Present(dev, log[k].path)
    /\ Children(dev, log[k].path) # {}
    /\ log[k].via # "exception"


\* What the handling of the deletions logs for a document and for a folder,
\* on the device and in the local directory.
RemoteDocDeletion == {"rm_file"}
RemoteDirDeletion == {"rm_dir", "rm_dir_rejected"}
LocalDocDeletion == {"os.remove"}
LocalDirDeletion == {"os.rmdir", "OSError"}

\* C23: in each direction no document is deleted after a folder deletion
\* has been attempted; and a folder deletion fails as not empty only for a
\* folder that holds something else than a document deleted on the other side.
C23_DocumentsFirst ==
  /\ \A j \in Idx : \A k \in Idx : j < k =>
       /\ ~(log[j].op \in RemoteDirDeletion /\ log[k].op \in RemoteDocDeletion
              /\ log[k].via = "handle_deletions")
       /\ ~(log[j].op \in LocalDirDeletion /\ log[k].op \in LocalDocDeletion)
  /\ pc \in {"cmp_local2remote", "crashed"} =>
       \A k \in Idx :
         /\ log[k].op = "rm_dir_rejected" =>
              \E q \in Children(dev, log[k].path) :
                 fix_path4local(q) \notin Range(deletions_loc.documents)
         /\ log[k].op = "OSError" =>
              \E q \in Children(fs, log[k].path) :
                 fix_path4remote(q) \notin Range(deletions_rem.documents)

\* A document and then the folder it was in have been deleted on the device.
C23_Witness ==
  /\ pc = "cmp_local2remote"
  /\ \E j \in Idx : \E k \in Idx :
       /\ j < k /\ log[j].op = "rm_file" /\ log[k].op = "rm_dir"
       /\ Parent(log[j].path) = log[k].path
       /\ fix_path4local(log[k].path) \in Range(deletions_loc.folders)

\* The same in the local directory.
DocumentsFirst_Local ==
  /\ pc = "cmp_local2remote"
  /\ \E j \in Idx : \E k \in Idx :
       /\ j < k /\ log[j].op = "os.remove" /\ log[k].op = "os.rmdir"
       /\ Parent(log[j].path) = log[k].path
       /\ fix_path4remote(log[k].path) \in Range(deletions_rem.folders)


\* What the reconciliation logs about a path: transfers, tried or done,
\* folder creations and the prompt.
Reconciling == {"upload", "upload_equal", "upload_failed", "download", "download_failed",
                "mkdir", "mkdir_exists", "mkdir_failed", "os.mkdir",
                "askuser", "input", "skip"}

\* The entry rel is in both trees, as a folder in both or as a document of
\* one size in both.
SameOnBothSides(rel) ==
  /\ Present(tree_loc, LocOf(rel)) /\ Present(remote_tree, RemOf(rel))
  /\ tree_loc[LocOf(rel)].entry_type = remote_tree[RemOf(rel)].entry_type
  /\ tree_loc[LocOf(rel)].file_size = remote_tree[RemOf(rel)].file_size

C25_EqualEqualUnreachable ==
  \A k \in Idx : log[k].op = "askuser" => ~(log[k].l = "equal" /\ log[k].r = "equal")


\* The deletions are about to be handled, the folder F and its sub-folder
\* F/G are both in the folder bucket of one side, and the other side is as
\* its snapshot file has it.
NestedDeletedLocally ==
  /\ pc = "handle_deletions"
  /\ {LocOf(<<"F">>), LocOf(<<"F", "G">>)} \subseteq Range(deletions_loc.folders)
  /\ statefile_rem.exists
  /\ statefile_rem.tree = Subtree(dev)

NestedDeletedRemotely ==
  /\ pc = "handle_deletions"
  /\ {RemOf(<<"F">>), RemOf(<<"F", "G">>)} \subseteq Range(deletions_rem.folders)
  /\ statefile_loc.exists
  /\ statefile_loc.tree = fs

\* C26: the run that finds a folder and a sub-folder of it deleted on one
\* side, with the other side unchanged, handles the deletions without
\* failing, and after that neither folder exists on the other side.
C26_NestedDeletion ==
  [][/\ NestedDeletedLocally =>
          /\ pc' = "cmp_local2remote"
          /\ ~Present(dev', RemOf(<<"F">>))
          /\ ~Present(dev', RemOf(<<"F", "G">>))
     /\ NestedDeletedRemotely =>
          /\ pc' = "cmp_local2remote"
          /\ ~Present(fs', LocOf(<<"F">>))
          /\ ~Present(fs', LocOf(<<"F", "G">>))]_vars

\* The direction from the local side alone, and only that the run goes on.
NestedDeletion_NoFailure ==
  [][NestedDeletedLocally => pc' = "cmp_local2remote"]_vars


DeletionBeatsModification_Local ==
  /\ pc = "save_sync_state"
  /\ \E j \in Idx : /\ log[j].op = "os.remove" /\ log[j].l = "modified"
                    /\ ~Present(fs, log[j].path)


\* The entry below the roots that a logged path stands for on either side.
RelOf(path) ==
  IF Head(path) = local_root_name THEN Tail(path)
  ELSE SubSeq(path, Len(remote_root) + 1, Len(path))

\* A logged change of one side; the deletion of the old file inside an
\* upload belongs to that upload.
Mutating(k) == log[k].op \in Mutations /\ log[k].via # "upload_file"

FirstLoopOps == {"download", "os.mkdir"}
SecondLoop(k) == log[k].op \in {"mkdir", "upload"} /\ log[k].via = "cmp_local2remote"

InDeletionSet(rel) ==
  \/ LocOf(rel) \in Range(deletions_loc.documents) \cup Range(deletions_loc.folders)
  \/ RemOf(rel) \in Range(deletions_rem.documents) \cup Range(deletions_rem.folders)

\* C28: in one run no entry is changed twice, by an upload, a download, a
\* folder creation or a deletion on either side; and no entry of a
\* deletion set is downloaded, uploaded or created.
C28_OneActionPerPath ==
  /\ \A j \in Idx : \A k \in Idx :
       (j # k /\ Mutating(j) /\ Mutating(k)) => RelOf(log[j].path) # RelOf(log[k].path)
  /\ \A k \in Idx :
       (Mutating(k) /\ log[k].via # "handle_deletions") => ~InDeletionSet(RelOf(log[k].path))

\* A run has acted in both loops of the reconciliation; and a run has
\* deleted one entry and transferred or created another.
C28_Witness ==
  /\ pc = "save_sync_state"
  /\ \E j \in Idx : \E k \in Idx : log[j].op \in FirstLoopOps /\ SecondLoop(k)

OneActionPerPath_AfterDeletion ==
  /\ pc = "save_sync_state"
  /\ \E j \in Idx : \E k \in Idx :
       /\ Mutating(j) /\ log[j].via = "handle_deletions"
       /\ Mutating(k) /\ log[k].via # "handle_deletions"


\* What a run logs about the device's store and about the local directory,
\* done or only tried.
RemoteOps == {"rm_file", "rm_dir", "rm_dir_rejected", "mkdir", "mkdir_exists",
              "mkdir_failed", "upload", "upload_equal", "upload_failed"}
LocalOps == {"download", "download_failed", "os.remove", "os.rmdir", "os.mkdir",
             "OSError", "FileExistsError", "FileNotFoundError"}

\* C29: every deletion, folder creation and upload of a run is at a path at
\* or below the remote root, every local deletion, directory creation and
\* download at a path at or below the local root, and what the device has
\* outside the remote root stays as it is.
C29_Confined ==
  /\ \A k \in Idx :
       /\ log[k].op \in RemoteOps => log[k].path \in Range(RemOrder)
       /\ log[k].op \in LocalOps => log[k].path \in LocPaths
  /\ dev[Outside] = Folder
  /\ dev[<<"Document">>] = Folder

\* A run that has the folder beside the remote root in its remote tree has
\* changed something on the device and something in the local directory.
C29_Witness ==
  /\ pc = "save_sync_state"
  /\ Present(remote_tree, Outside)
  /\ \E k \in Idx : log[k].op \in RemoteOps \cap Mutations
  /\ \E k \in Idx : log[k].op \in LocalOps \cap Mutations


\* A call of a collaborator (os, json) has raised.
CollaboratorRaised ==
  /\ pc = "crashed"
  /\ log # <<>>
  /\ log[Len(log)].op \in {"OSError", "FileExistsError", "FileNotFoundError",
                            "JSONDecodeError"}

\* C30: every run that has started, and in which every call of a
\* collaborator returns, gets to the end of its persist step.
C30_Termination == (pc = "cmp_remote2old") ~> (pc = "done" \/ CollaboratorRaised)

\* Every run that has started ends, with the snapshots written or with an
\* exception.
RunEnds == (pc = "cmp_remote2old") ~> (pc \in {"done", "crashed"})
====
